---- MODULE Spec2Model ----
(***************************************************************************)
(* The RehabAI plan store (backend/database.py): one table of rehab plans  *)
(* behind a SQLAlchemy session factory on a SQLite file, with the five     *)
(* module functions init_database, save_plan, get_all_plans,               *)
(* get_plan_by_id and get_stats.  Every function body is cut into the      *)
(* storage statements it issues; a statement either succeeds or raises a   *)
(* storage error (OperationalError), and control then follows the          *)
(* try/except/finally structure of the source.                             *)
(***************************************************************************)
EXTENDS Integers, Sequences, FiniteSets, TLC

\* ------------------------------------------------------------------ bounds
\* save_plan calls made in one behaviour
MaxCalls == 3
\* save_plan calls made in one behaviour of SpecDefaults
MaxDefaultsCalls == 1
\* save_plan calls made in one behaviour of SpecConc
MaxConcCalls == 2

\* ------------------------------------------------------------ Python values
\* an absent optional value (None as a result, an empty local)
None == << >>
Some(v) == << v >>
\* None where a string is expected (a nullable String column, an optional str)
NoneStr == "<None>"
NoException == ""

Callers == {1, 2}

\* ---------------------------------------------------------------- inputs
Keys == {"age", "gender", "surgeryDate", "conditions"}

Supplied ==
  [k \in Keys |->
     CASE k = "age" -> "30"
       [] k = "gender" -> "F"
       [] k = "surgeryDate" -> "2024-01-05"
       [] k = "conditions" -> "diabetes"]

\* a patient_info dict holding exactly the keys of S
Info(S) == [k \in S |-> Supplied[k]]

Procedures == {"ACL", "TKR"}

\* plan payloads: a dict json.dumps can serialize and a set, which it cannot
Plans == {[type |-> "dict", weeks |-> 6], [type |-> "set", weeks |-> 6]}

SaveArgs(infos, plans, files, notes) ==
  [patient_info : infos, procedure : Procedures, days_post_op : {14},
   plan : plans, file_name : files, notes : notes]

\* the calls of the sequential specification
SomeArgs == SaveArgs({Info(Keys), Info({})}, Plans, {NoneStr}, {NoneStr})

\* the calls of the concurrent specification
ConcArgs ==
  SaveArgs({Info(Keys)}, {pl \in Plans : pl.type = "dict"}, {NoneStr},
           {NoneStr})

\* the calls of SpecDefaults: every subset of the expected keys
AllArgs ==
  SaveArgs({Info(S) : S \in SUBSET Keys}, Plans, {"scan.pdf"}, {"stiff"})

\* ------------------------------------------------------------ pure helpers
\* dict.get(key): the default dropped
DictGetNoDefault(d, k, default) == IF k \in DOMAIN d THEN d[k] ELSE NoneStr

\* dict.get(key, default)
DictGet(d, k, default) == IF k \in DOMAIN d THEN d[k] ELSE default

JsonSerializable(plan) == plan.type = "dict"

\* json.dumps of a serializable payload
JsonDumps(plan) == "{\"weeks\": " \o ToString(plan.weeks) \o "}"

\* notes or ''
OrEmpty(s) == IF s = NoneStr \/ s = "" THEN "" ELSE s

\* RehabPlan(...) as save_plan builds it: a transient object, no id yet
NewRehabPlan(a) ==
  [patient_age |-> DictGet(a.patient_info, "age", "N/A"),
   patient_gender |-> DictGet(a.patient_info, "gender", "N/A"),
   surgery_date |-> DictGet(a.patient_info, "surgeryDate", ""),
   conditions |-> DictGet(a.patient_info, "conditions", ""),
   additional_notes |-> OrEmpty(a.notes),
   procedure_identified |-> a.procedure,
   days_post_op |-> a.days_post_op,
   plan_json |-> JsonDumps(a.plan),
   file_name |-> a.file_name]

\* -------------------------------------------------------------- the table
Max(S) == CHOOSE x \in S : \A y \in S : y <= x

\* the largest id handed out again
NextIdReused(t) == IF t = {} THEN 1 ELSE Max({r.id : r \in t})

\* INTEGER PRIMARY KEY: the row id SQLite gives an insert that names none
NextId(t) == IF t = {} THEN 1 ELSE Max({r.id : r \in t}) + 1

\* the row an INSERT of obj writes: id from the table, created_at from the
\* column default (datetime.utcnow)
RowOf(obj, id, now) ==
  [id |-> id,
   patient_age |-> obj.patient_age,
   patient_gender |-> obj.patient_gender,
   surgery_date |-> obj.surgery_date,
   conditions |-> obj.conditions,
   additional_notes |-> obj.additional_notes,
   procedure_identified |-> obj.procedure_identified,
   days_post_op |-> obj.days_post_op,
   plan_json |-> obj.plan_json,
   created_at |-> now,
   file_name |-> obj.file_name]

\* an insert that replaces the stored row of the same procedure
InsertReplacing(t, row) ==
  {r \in t : r.procedure_identified # row.procedure_identified} \cup {row}

Insert(t, row) == t \cup {row}

\* a full scan: the rows in rowid order
RECURSIVE Scan(_)
Scan(t) ==
  IF t = {} THEN << >>
  ELSE LET r == CHOOSE r \in t : \A q \in t : r.id <= q.id
       IN << r >> \o Scan(t \ {r})

\* the first row, the filter dropped
FirstRow(rows, plan_id) == IF rows = << >> THEN None ELSE Some(Head(rows))

\* query(RehabPlan).filter(RehabPlan.id == plan_id).first()
RECURSIVE FirstWithId(_, _)
FirstWithId(rows, plan_id) ==
  IF rows = << >> THEN None
  ELSE IF Head(rows).id = plan_id THEN Some(Head(rows))
  ELSE FirstWithId(Tail(rows), plan_id)

QueryById(t, plan_id) == FirstWithId(Scan(t), plan_id)

\* query(RehabPlan).count()
QueryCount(t) == Len(Scan(t))

\* a row never joins the group of its key
CountApart(pairs, key) == Append(pairs, <<key, 1>>)

\* one more row for key in the (key, count) pairs of a GROUP BY
RECURSIVE CountInto(_, _)
CountInto(pairs, key) ==
  IF pairs = << >> THEN << <<key, 1>> >>
  ELSE IF Head(pairs)[1] = key
       THEN << <<key, Head(pairs)[2] + 1>> >> \o Tail(pairs)
       ELSE << Head(pairs) >> \o CountInto(Tail(pairs), key)

\* query(procedure_identified, func.count(id)).group_by(...).all()
RECURSIVE GroupCount(_)
GroupCount(rows) ==
  IF rows = << >> THEN << >>
  ELSE CountInto(GroupCount(SubSeq(rows, 1, Len(rows) - 1)),
                 rows[Len(rows)].procedure_identified)

QueryGroups(t) == GroupCount(Scan(t))

\* dict(procedures): later pairs overwrite earlier ones
PyDict(pairs) ==
  [k \in {pairs[i][1] : i \in DOMAIN pairs} |->
     LET i == CHOOSE i \in DOMAIN pairs :
                /\ pairs[i][1] = k
                /\ \A j \in DOMAIN pairs : pairs[j][1] = k => j <= i
     IN pairs[i][2]]

\* SQLite's numeric value of a text argument of avg(): the leading number,
\* 0 when there is none
SqlNumeric(s) == IF s = "30" THEN 30 ELSE 0

RECURSIVE SumAges(_)
SumAges(rows) ==
  IF rows = << >> THEN 0
  ELSE SqlNumeric(Head(rows).patient_age) + SumAges(Tail(rows))

\* query(func.avg(patient_age)).scalar(): NULL on no rows, else the mean,
\* kept as the pair (sum, count)
QueryAvgAge(t) ==
  LET rows == Scan(t)
  IN IF rows = << >> THEN None ELSE Some(<<SumAges(rows), Len(rows)>>)

\* ------------------------------------------------------------- the session
NoSession == [state |-> "none", new |-> {}, conn |-> FALSE]

\* SessionLocal(): a session that has not touched the connection yet
SessionLocal == [state |-> "open", new |-> {}, conn |-> FALSE]

SessionAdd(s, obj) == [s EXCEPT !.new = @ \cup {obj}]

\* a statement has run on the session's connection
SessionUse(s) == [s EXCEPT !.conn = TRUE]

SessionFlushed(s) == [s EXCEPT !.new = {}, !.conn = TRUE]

SessionRollback(s) == [s EXCEPT !.new = {}, !.conn = FALSE]

\* a close that releases nothing
SessionCloseLeaks(s) == s

SessionClose(s) == [state |-> "closed", new |-> {}, conn |-> FALSE]

\* ------------------------------------------------------------------ state
VARIABLES
  schema,   \* the rehab_plans table exists in the database file
  table,    \* the committed rows of rehab_plans
  clock,    \* the reading of datetime.utcnow, moving on with every insert
  frame,    \* per caller: the module function it is in and that call's locals
  nsaves,   \* save_plan calls started so far
  log       \* how each finished save_plan call ended, in order

vars == << schema, table, clock, frame, nsaves, log >>

\* a caller outside every module function
IdleFrame ==
  [fn |-> "none", pc |-> "idle", args |-> << >>, db |-> NoSession,
   db_plan |-> None, total_plans |-> 0, procedures |-> << >>,
   exc |-> NoException, raising |-> FALSE, ret |-> None,
   outcome |-> "none", before |-> {}]

Ready(p) == frame[p].pc \in {"idle", "done"}

At(p, fn, pc) == frame[p].fn = fn /\ frame[p].pc = pc

Set(p, f) == frame' = [frame EXCEPT ![p] = f]

\* entering a function: db = SessionLocal() is its first statement
Enter(fn, pc, a) ==
  [IdleFrame EXCEPT !.fn = fn, !.pc = pc, !.args = a, !.db = SessionLocal]

\* a storage statement raised inside try/finally with no except clause
Propagate(f) ==
  [f EXCEPT !.exc = "OperationalError", !.raising = TRUE, !.pc = "finally"]

\* finally: db.close(), then the call ends by its return or by the exception
Leave(f) ==
  [f EXCEPT !.db = SessionClose(f.db), !.pc = "done",
            !.db_plan = None, !.total_plans = 0, !.procedures = << >>,
            !.outcome = IF f.raising THEN "raised" ELSE "returned"]

Init ==
  /\ schema = FALSE
  /\ table = {}
  /\ clock = 0
  /\ frame = [p \in Callers |-> IdleFrame]
  /\ nsaves = 0
  /\ log = << >>

\* ---------------------------------------------------------- init_database
\* Base.metadata.create_all: creates the table unless it exists
InitDatabase(p) ==
  /\ Ready(p)
  /\ schema' = TRUE
  /\ Set(p, [IdleFrame EXCEPT !.fn = "init_database", !.pc = "done",
                              !.outcome = "returned"])
  /\ UNCHANGED << table, clock, nsaves, log >>

\* ------------------------------------------------------------- save_plan
CallSave(p, argset, limit) ==
  /\ Ready(p)
  /\ nsaves < limit
  /\ \E a \in argset :
       Set(p, [Enter("save_plan", "construct", a) EXCEPT !.before = table])
  /\ nsaves' = nsaves + 1
  /\ UNCHANGED << schema, table, clock, log >>

\* db_plan = RehabPlan(...); json.dumps raises TypeError on a payload it
\* cannot serialize
SaveConstruct(p) ==
  /\ At(p, "save_plan", "construct")
  /\ LET f == frame[p]
     IN IF JsonSerializable(f.args.plan)
        THEN Set(p, [f EXCEPT !.db_plan = Some(NewRehabPlan(f.args)),
                              !.pc = "add"])
        ELSE Set(p, [f EXCEPT !.exc = "TypeError", !.pc = "except"])
  /\ UNCHANGED << schema, table, clock, nsaves, log >>

\* db.add(db_plan)
SaveAdd(p) ==
  /\ At(p, "save_plan", "add")
  /\ LET f == frame[p]
     IN Set(p, [f EXCEPT !.db = SessionAdd(f.db, f.db_plan[1]),
                         !.pc = "commit"])
  /\ UNCHANGED << schema, table, clock, nsaves, log >>

\* db.commit(): the flush inserts the pending object and the transaction
\* commits, as one atomic write of the database file
SaveCommit(p) ==
  /\ At(p, "save_plan", "commit")
  /\ schema
  /\ LET f == frame[p]
         row == RowOf(f.db_plan[1], NextId(table), clock)
     IN /\ table' = Insert(table, row)
        /\ Set(p, [f EXCEPT !.db = SessionFlushed(f.db),
                            !.db_plan = Some(row), !.pc = "refresh"])
  /\ clock' = clock + 1
  /\ UNCHANGED << schema, nsaves, log >>

\* db.commit() raises: nothing is written (always so while the table is
\* missing)
SaveCommitFails(p) ==
  /\ At(p, "save_plan", "commit")
  /\ LET f == frame[p]
     IN Set(p, [f EXCEPT !.db = SessionUse(f.db),
                         !.exc = "OperationalError", !.pc = "except"])
  /\ UNCHANGED << schema, table, clock, nsaves, log >>

\* db.refresh(db_plan) reloads the committed row; return db_plan.id
SaveRefresh(p) ==
  /\ At(p, "save_plan", "refresh")
  /\ LET f == frame[p]
         loaded == QueryById(table, f.db_plan[1].id)
     IN Set(p, [f EXCEPT !.db = SessionUse(f.db), !.db_plan = loaded,
                         !.ret = Some(loaded[1].id), !.pc = "finally"])
  /\ UNCHANGED << schema, table, clock, nsaves, log >>

\* db.refresh(db_plan) raises after the commit went through
SaveRefreshFails(p) ==
  /\ At(p, "save_plan", "refresh")
  /\ LET f == frame[p]
     IN Set(p, [f EXCEPT !.db = SessionUse(f.db),
                         !.exc = "OperationalError", !.pc = "except"])
  /\ UNCHANGED << schema, table, clock, nsaves, log >>

\* except Exception: db.rollback(); return None
SaveExcept(p) ==
  /\ At(p, "save_plan", "except")
  /\ LET f == frame[p]
     IN Set(p, [f EXCEPT !.db = SessionRollback(f.db), !.ret = None,
                         !.pc = "finally"])
  /\ UNCHANGED << schema, table, clock, nsaves, log >>

\* db.rollback() itself raises, which it can once the session has used its
\* connection: the handler is left by that exception
SaveRollbackFails(p) ==
  /\ At(p, "save_plan", "except")
  /\ frame[p].db.conn
  /\ Set(p, Propagate(frame[p]))
  /\ UNCHANGED << schema, table, clock, nsaves, log >>

SaveFinally(p) ==
  /\ At(p, "save_plan", "finally")
  /\ LET f == Leave(frame[p])
     IN /\ Set(p, f)
        /\ log' = Append(log, [outcome |-> f.outcome, ret |-> f.ret])
  /\ UNCHANGED << schema, table, clock, nsaves >>

\* --------------------------------------------------------- get_all_plans
CallGetAll(p) ==
  /\ Ready(p)
  /\ Set(p, Enter("get_all_plans", "query", << >>))
  /\ UNCHANGED << schema, table, clock, nsaves, log >>

GetAllQuery(p) ==
  /\ At(p, "get_all_plans", "query")
  /\ schema
  /\ LET f == frame[p]
     IN Set(p, [f EXCEPT !.db = SessionUse(f.db), !.ret = Some(Scan(table)),
                         !.pc = "finally"])
  /\ UNCHANGED << schema, table, clock, nsaves, log >>

GetAllQueryFails(p) ==
  /\ At(p, "get_all_plans", "query")
  /\ Set(p, Propagate([frame[p] EXCEPT !.db = SessionUse(@)]))
  /\ UNCHANGED << schema, table, clock, nsaves, log >>

GetAllFinally(p) ==
  /\ At(p, "get_all_plans", "finally")
  /\ Set(p, Leave(frame[p]))
  /\ UNCHANGED << schema, table, clock, nsaves, log >>

\* -------------------------------------------------------- get_plan_by_id
CallGetById(p, ids) ==
  /\ Ready(p)
  /\ \E x \in ids : Set(p, Enter("get_plan_by_id", "query", [plan_id |-> x]))
  /\ UNCHANGED << schema, table, clock, nsaves, log >>

GetByIdQuery(p) ==
  /\ At(p, "get_plan_by_id", "query")
  /\ schema
  /\ LET f == frame[p]
     IN Set(p, [f EXCEPT !.db = SessionUse(f.db),
                         !.ret = QueryById(table, f.args.plan_id),
                         !.pc = "finally"])
  /\ UNCHANGED << schema, table, clock, nsaves, log >>

GetByIdQueryFails(p) ==
  /\ At(p, "get_plan_by_id", "query")
  /\ Set(p, Propagate([frame[p] EXCEPT !.db = SessionUse(@)]))
  /\ UNCHANGED << schema, table, clock, nsaves, log >>

GetByIdFinally(p) ==
  /\ At(p, "get_plan_by_id", "finally")
  /\ Set(p, Leave(frame[p]))
  /\ UNCHANGED << schema, table, clock, nsaves, log >>

\* ------------------------------------------------------------- get_stats
\* The three queries are three statements; the sqlite3 driver opens no
\* transaction for a SELECT, so each reads the rows committed when it runs.
CallGetStats(p) ==
  /\ Ready(p)
  /\ Set(p, Enter("get_stats", "count", << >>))
  /\ UNCHANGED << schema, table, clock, nsaves, log >>

StatsCount(p) ==
  /\ At(p, "get_stats", "count")
  /\ schema
  /\ LET f == frame[p]
     IN Set(p, [f EXCEPT !.db = SessionUse(f.db),
                         !.total_plans = QueryCount(table), !.pc = "group"])
  /\ UNCHANGED << schema, table, clock, nsaves, log >>

StatsGroup(p) ==
  /\ At(p, "get_stats", "group")
  /\ LET f == frame[p]
     IN Set(p, [f EXCEPT !.procedures = QueryGroups(table), !.pc = "avg"])
  /\ UNCHANGED << schema, table, clock, nsaves, log >>

\* the avg query and the returned dict
StatsAvg(p) ==
  /\ At(p, "get_stats", "avg")
  /\ LET f == frame[p]
     IN Set(p, [f EXCEPT !.ret = Some([total_plans |-> f.total_plans,
                                       procedures |-> PyDict(f.procedures),
                                       average_age |-> QueryAvgAge(table)]),
                         !.pc = "finally"])
  /\ UNCHANGED << schema, table, clock, nsaves, log >>

\* any of the three queries raises
StatsQueryFails(p) ==
  /\ frame[p].fn = "get_stats"
  /\ frame[p].pc \in {"count", "group", "avg"}
  /\ Set(p, Propagate([frame[p] EXCEPT !.db = SessionUse(@)]))
  /\ UNCHANGED << schema, table, clock, nsaves, log >>

StatsFinally(p) ==
  /\ At(p, "get_stats", "finally")
  /\ Set(p, Leave(frame[p]))
  /\ UNCHANGED << schema, table, clock, nsaves, log >>

\* --------------------------------------------------------- specifications
Step(p, argset, limit) ==
  \/ InitDatabase(p)
  \/ CallSave(p, argset, limit)
  \/ SaveConstruct(p)
  \/ SaveAdd(p)
  \/ SaveCommit(p)
  \/ SaveCommitFails(p)
  \/ SaveRefresh(p)
  \/ SaveRefreshFails(p)
  \/ SaveExcept(p)
  \/ SaveRollbackFails(p)
  \/ SaveFinally(p)
  \/ CallGetAll(p)
  \/ GetAllQuery(p)
  \/ GetAllQueryFails(p)
  \/ GetAllFinally(p)
  \/ CallGetById(p, 1 .. limit + 1)
  \/ GetByIdQuery(p)
  \/ GetByIdQueryFails(p)
  \/ GetByIdFinally(p)
  \/ CallGetStats(p)
  \/ StatsCount(p)
  \/ StatsGroup(p)
  \/ StatsAvg(p)
  \/ StatsQueryFails(p)
  \/ StatsFinally(p)

\* one caller, one call at a time
Next == Step(1, SomeArgs, MaxCalls)

Spec == Init /\ [][Next]_vars

\* two callers whose calls interleave statement by statement
NextConc == \E p \in Callers : Step(p, ConcArgs, MaxConcCalls)

SpecConc == Init /\ [][NextConc]_vars

\* one caller, every combination of patient_info keys
NextDefaults == Step(1, AllArgs, MaxDefaultsCalls)

SpecDefaults == Init /\ [][NextDefaults]_vars

\* ------------------------------------------------------------ properties
Done(p, fn) == At(p, fn, "done")

Returned(p, fn) == Done(p, fn) /\ frame[p].outcome = "returned"

\* the save_plan calls, by position in log, that returned an id
Successes == {i \in DOMAIN log : log[i].outcome = "returned" /\ log[i].ret # None}

Ids(t) == {r.id : r \in t}

\* C1: whenever save_plan returns None, the stored rows are exactly the rows
\* stored when the call began.
SaveFailureLeavesStoreUnchanged ==
  \A p \in Callers :
    (Returned(p, "save_plan") /\ frame[p].ret = None)
      => table = frame[p].before

\* C2: every save_plan call ends by returning to its caller, never by an
\* exception leaving save_plan.
SaveNeverRaises ==
  \A p \in Callers : Done(p, "save_plan") => frame[p].outcome = "returned"

\* C3: the ids returned by successful save_plan calls are strictly increasing
\* in call order (so pairwise distinct), and no two stored rows share an id.
IdsUniqueAndIncreasing ==
  /\ \A i \in Successes : \A j \in Successes :
       i < j => log[i].ret[1] < log[j].ret[1]
  /\ \A r \in table : \A q \in table : r.id = q.id => r = q

\* two saves returned ids with a failed save between them
IdsUniqueAndIncreasingWitness ==
  /\ Len(log) = 3
  /\ Successes = {1, 3}

\* C4: when get_stats returns after save_plan calls that each returned an id
\* or None, total_plans is the number of calls that returned an id.
TotalPlansCountsSuccessfulSaves ==
  (/\ Returned(1, "get_stats")
   /\ \A i \in DOMAIN log : log[i].outcome = "returned")
    => frame[1].ret[1].total_plans = Cardinality(Successes)

\* C5: the procedures mapping get_stats returns has exactly the
\* procedure_identified values of the stored rows as keys, each mapped to the
\* number of stored rows bearing it.
ProceduresGroupStoredRecords ==
  Returned(1, "get_stats")
    => frame[1].ret[1].procedures =
         [k \in {r.procedure_identified : r \in table} |->
            Cardinality({r \in table : r.procedure_identified = k})]

\* get_stats answered {ACL: 2, TKR: 1}
ProceduresGroupStoredRecordsWitness ==
  /\ Returned(1, "get_stats")
  /\ frame[1].ret[1].procedures = [k \in Procedures |-> IF k = "ACL" THEN 2 ELSE 1]

\* C6: no caller that is outside the module functions, by return or by
\* exception, holds an open session.
SessionsReleased ==
  \A p \in Callers : Ready(p) => frame[p].db.state # "open"

\* a save_plan call left by the exception of its handler's rollback, and a
\* read left by the exception of its query, with the session closed
SessionsReleasedWitness ==
  /\ frame[1].outcome = "raised"
  /\ frame[1].fn \in {"save_plan", "get_stats"}
  /\ frame[1].pc = "done"
  /\ frame[1].db.state = "closed"

\* C7: a get_plan_by_id(x) call whose query raised no storage error returns;
\* it returns the stored row with id x when there is one, and None when
\* there is none.
GetByIdReturnsMatchingRecordOrNone ==
  \A p \in Callers :
    (Done(p, "get_plan_by_id") /\ frame[p].exc = NoException)
      => /\ frame[p].outcome = "returned"
         /\ IF frame[p].args.plan_id \in Ids(table)
            THEN /\ frame[p].ret # None
                 /\ frame[p].ret[1] \in table
                 /\ frame[p].ret[1].id = frame[p].args.plan_id
            ELSE frame[p].ret = None

\* the second of several rows was looked up and found
GetByIdReturnsMatchingRecordOrNoneWitness ==
  /\ Returned(1, "get_plan_by_id")
  /\ frame[1].args.plan_id = 2
  /\ frame[1].ret # None
  /\ Cardinality(table) = 3

\* C8: every step keeps every stored row as it is; a step of get_all_plans,
\* get_plan_by_id, get_stats or init_database leaves the table unchanged, and
\* the table changes only by the commit of a save_plan call adding one row
\* under a fresh id, at most one row per call.
StoredRecordsNeverChange ==
  /\ [][/\ table \subseteq table'
        /\ table' # table =>
             /\ At(1, "save_plan", "commit")
             /\ frame'[1].fn = "save_plan"
             /\ \E row \in table' :
                  /\ table' = table \cup {row}
                  /\ row.id \notin Ids(table)]_vars
  /\ [](\A p \in Callers :
          frame[p].fn = "save_plan"
            => /\ frame[p].before \subseteq table
               /\ Cardinality(table \ frame[p].before) <= 1)

\* reads and a repeated init_database after several saves
StoredRecordsNeverChangeWitness ==
  /\ Cardinality(table) = 3
  /\ frame[1].fn \in {"get_all_plans", "get_plan_by_id", "get_stats",
                      "init_database"}
  /\ frame[1].pc = "done"

\* the column a patient_info key is stored in
ColumnOf(row, k) ==
  CASE k = "age" -> row.patient_age
    [] k = "gender" -> row.patient_gender
    [] k = "surgeryDate" -> row.surgery_date
    [] k = "conditions" -> row.conditions

\* C9: a save_plan call in which nothing raised returns an id, and the row
\* get_plan_by_id finds under that id carries the supplied value of every
\* patient_info key present, 'N/A' for a missing age or gender, '' for a
\* missing surgeryDate or conditions, and the procedure and days_post_op
\* passed.
MissingKeysDefault ==
  (Done(1, "save_plan") /\ frame[1].exc = NoException)
    => /\ frame[1].outcome = "returned"
       /\ frame[1].ret # None
       /\ LET a == frame[1].args
              got == QueryById(table, frame[1].ret[1])
          IN /\ got # None
             /\ got[1].id = frame[1].ret[1]
             /\ \A k \in Keys :
                  ColumnOf(got[1], k) =
                    IF k \in DOMAIN a.patient_info THEN a.patient_info[k]
                    ELSE IF k \in {"age", "gender"} THEN "N/A" ELSE ""
             /\ got[1].procedure_identified = a.procedure
             /\ got[1].days_post_op = a.days_post_op

\* a save that was given only gender and conditions returned an id
MissingKeysDefaultWitness ==
  /\ Returned(1, "save_plan")
  /\ frame[1].ret # None
  /\ DOMAIN frame[1].args.patient_info = {"gender", "conditions"}

RECURSIVE SumOver(_, _)
SumOver(f, S) ==
  IF S = {} THEN 0
  ELSE LET k == CHOOSE k \in S : TRUE IN f[k] + SumOver(f, S \ {k})

\* C10: in every result of get_stats, total_plans is the sum of the counts
\* in procedures.
StatsDescribeOnePopulation ==
  \A p \in Callers :
    Returned(p, "get_stats")
      => frame[p].ret[1].total_plans =
           SumOver(frame[p].ret[1].procedures,
                   DOMAIN frame[p].ret[1].procedures)

====
